---- MODULE Spec2Model ----
(***************************************************************************)
(* Book / order service of src/main.py over a document store.              *)
(*                                                                         *)
(* The store holds three collections (book, price, order).  A document's   *)
(* key (_id) is its position in the collection's sequence: the store       *)
(* assigns keys and nothing is ever deleted.  Handlers that make one store *)
(* write are one action; get_prices (find, insert, insert, find) and       *)
(* get_download_link (find_one, update_one) are split at their store calls *)
(* because FastAPI runs sync handlers on a thread pool and other requests  *)
(* can run between two store calls of the same request.                    *)
(***************************************************************************)
EXTENDS Integers, Sequences, FiniteSets, TLC

\* ------------------------------------------------------------------ bounds
MaxBooks == 2
MaxOrders == 2
MaxTime == 1
NumProcs == 2
\* clock resolution: ticks per second (datetime carries sub-second precision)
TicksPerSec == 2

\* --------------------------------------------------------------- constants
LinkHours == 24
DefaultAmountCents == 1900
EbookCents == 1900
HardcoverCents == 3900
InitialProgress == 1
InitialPriceCents == 0

\* ----------------------------------------------------------------- values
\* Optional[T]: None is the empty sequence, a present value v is <<v>>
None == <<>>
Some(v) == <<v>>

Procs == 1..NumProcs
\* what datetime.now can return, in ticks since the epoch
Times == 1..MaxTime

\* request-path identifiers: the hex strings of the keys, and one string
\* that is not 24 hex digits
Str(key) == [hex |-> TRUE, key |-> key]
Malformed == [hex |-> FALSE, key |-> 0]
ReqIds == {Str(k) : k \in 1..MaxBooks} \cup {Malformed}

\* bson.ObjectId(s) raises InvalidId unless s is a well-formed key string
ObjectIdRaises(s) == ~s.hex
ObjectId(s) == s.key

Metas == {"moon"}
EmptyDict == "{}"
Contents == {"story"}
UpdateStatuses == {"ready", "draft"}
UpdateProgresses == {101}
Skus == {"ebook", "hardcover", "poster"}

\* ------------------------------------------------------------------ state
VARIABLES db, book, price, order, pc, local, last

vars == <<db, book, price, order, pc, local, last>>

NoLocal == [op |-> "none"]
NoBody == [kind |-> "none"]

\* Response of an unhandled exception or HTTPException
Error(op, req, status) ==
    [op |-> op, step |-> "raise", req |-> req, status |-> status, body |-> NoBody]

Init ==
    /\ db \in BOOLEAN
    /\ book = <<>>
    /\ price = <<>>
    /\ order = <<>>
    /\ pc = [p \in Procs |-> "idle"]
    /\ local = [p \in Procs |-> NoLocal]
    /\ last = [op |-> "init", step |-> "init", req |-> NoBody, status |-> 0, body |-> NoBody]

\* --------------------------------------------------------- store gateway
\* find / find_one by _id
FindById(coll, key) == IF key \in DOMAIN coll THEN <<coll[key]>> ELSE <<>>

\* find_one({"sku": sku}): the first matching document in key order
RECURSIVE FindOneBySku(_, _, _)
FindOneBySku(coll, sku, k) ==
    IF k > Len(coll) THEN <<>>
    ELSE IF coll[k].sku = sku THEN <<coll[k]>>
    ELSE FindOneBySku(coll, sku, k + 1)

\* create_document: insert the model's fields, return the new key as a string
InsertedKey(coll) == Len(coll) + 1
Insert(coll, doc) == Append(coll, doc)

\* ------------------------------------------------------------------ books
\* Book(meta=payload.meta, status="generating", priceCents=0, progress=1)
NewBook(meta) ==
    [ownerId |-> None, meta |-> meta, json_content |-> EmptyDict,
     status |-> "generating", priceCents |-> InitialPriceCents,
     progress |-> InitialProgress, download_url |-> None, expires_at |-> None,
     updated_at |-> None]

create_book ==
    \E meta \in Metas :
        /\ Len(book) < MaxBooks
        /\ IF ~db
           THEN /\ last' = Error("create_book", [meta |-> meta], 500)
                /\ UNCHANGED book
           ELSE /\ book' = Insert(book, NewBook(meta))
                /\ last' = [op |-> "create_book", step |-> "return",
                            req |-> [meta |-> meta], status |-> 200,
                            body |-> [id |-> Str(InsertedKey(book)),
                                      status |-> NewBook(meta).status,
                                      progress |-> NewBook(meta).progress]]
        /\ UNCHANGED <<db, price, order, pc, local>>

\* doc["id"] = str(doc.pop("_id"))
WithId(key, doc) == [id |-> Str(key), doc |-> doc]

get_book ==
    \E book_id \in ReqIds :
        /\ last' = IF ObjectIdRaises(book_id) \/ ~db
                   THEN Error("get_book", [book_id |-> book_id], 500)
                   ELSE LET docs == FindById(book, ObjectId(book_id)) IN
                        IF docs = <<>>
                        THEN Error("get_book", [book_id |-> book_id], 404)
                        ELSE [op |-> "get_book", step |-> "return",
                              req |-> [book_id |-> book_id], status |-> 200,
                              body |-> WithId(ObjectId(book_id), docs[1])]
        /\ UNCHANGED <<db, book, price, order, pc, local>>

\* UpdateBookRequest: four optional fields
Payloads ==
    [meta : {None} \cup {Some(m) : m \in Metas},
     json_content : {None} \cup {Some(c) : c \in Contents},
     status : {None} \cup {Some(s) : s \in UpdateStatuses},
     progress : {None} \cup {Some(n) : n \in UpdateProgresses}]

PayloadFields == {"meta", "json_content", "status", "progress"}

\* a replace-style update: fields the request leaves out fall back to defaults
Updates_replace(payload, t) ==
    [f \in PayloadFields \cup {"updated_at"} |->
        IF f = "updated_at" THEN Some(t)
        ELSE IF payload[f] # None THEN payload[f][1]
        ELSE NewBook("moon")[f]]

\* payload.model_dump(exclude_none=True) plus updated_at
Updates(payload, t) ==
    [f \in {g \in PayloadFields : payload[g] # None} \cup {"updated_at"} |->
        IF f = "updated_at" THEN Some(t) ELSE payload[f][1]]

\* {"$set": updates} on one document
ApplySet(doc, updates) ==
    [f \in DOMAIN doc \cup DOMAIN updates |->
        IF f \in DOMAIN updates THEN updates[f] ELSE doc[f]]

\* update_one({"_id": key}, {"$set": updates}): the collection afterwards
UpdateOne(coll, key, updates) ==
    IF key \in DOMAIN coll
    THEN [coll EXCEPT ![key] = ApplySet(coll[key], updates)]
    ELSE coll

MatchedCount(coll, key) == IF key \in DOMAIN coll THEN 1 ELSE 0

update_book ==
    \E book_id \in ReqIds, payload \in Payloads, now \in Times :
        LET req == [book_id |-> book_id, payload |-> payload, now |-> now] IN
        /\ IF ~db \/ ObjectIdRaises(book_id)
           THEN /\ last' = Error("update_book", req, 500)
                /\ UNCHANGED book
           ELSE /\ book' = UpdateOne(book, ObjectId(book_id), Updates(payload, now))
                /\ last' = IF MatchedCount(book, ObjectId(book_id)) = 0
                           THEN Error("update_book", req, 404)
                           ELSE [op |-> "update_book", step |-> "return", req |-> req,
                                 status |-> 200,
                                 body |-> [id |-> book_id, updated |-> TRUE]]
        /\ UNCHANGED <<db, price, order, pc, local>>

\* ---------------------------------------------------------- download link
\* a check that only looks at whether the book exists
Refused_absentOnly(docs) == docs = <<>>

\* not book or book.get("status") != "ready"
Refused(docs) == docs = <<>> \/ docs[1].status # "ready"

\* a link that lives one hour less
Expires_short(t) == t + (LinkHours - 1) * 3600 * TicksPerSec

\* datetime.now(timezone.utc) + timedelta(hours=24)
Expires(t) == t + LinkHours * 3600 * TicksPerSec

\* int(expires.timestamp())
Timestamp(t) == t \div TicksPerSec

\* f"https://files.example.com/download/{book_id}?exp={int(expires.timestamp())}"
Url(book_id, expires) == [book_id |-> book_id, exp |-> Timestamp(expires)]

\* expires.isoformat()
IsoFormat(t) == [iso |-> t]

\* up to and including the computation of url; the store write comes next
download_find(p) ==
    \E book_id \in ReqIds, now \in Times :
        LET req == [book_id |-> book_id, now |-> now] IN
        /\ pc[p] = "idle"
        /\ IF ~db \/ ObjectIdRaises(book_id)
           THEN /\ last' = Error("get_download_link", req, 500)
                /\ UNCHANGED <<pc, local>>
           ELSE IF Refused(FindById(book, ObjectId(book_id)))
           THEN /\ last' = Error("get_download_link", req, 400)
                /\ UNCHANGED <<pc, local>>
           ELSE /\ pc' = [pc EXCEPT ![p] = "download_update"]
                /\ local' = [local EXCEPT ![p] =
                               [op |-> "get_download_link", book_id |-> book_id,
                                expires |-> Expires(now),
                                url |-> Url(book_id, Expires(now))]]
                /\ last' = [op |-> "get_download_link", step |-> "find", req |-> req,
                            status |-> 0, body |-> NoBody]
        /\ UNCHANGED <<db, book, price, order>>

download_update(p) ==
    /\ pc[p] = "download_update"
    /\ book' = UpdateOne(book, ObjectId(local[p].book_id),
                         [download_url |-> Some(local[p].url),
                          expires_at |-> Some(local[p].expires)])
    /\ last' = [op |-> "get_download_link", step |-> "return",
                req |-> [book_id |-> local[p].book_id], status |-> 200,
                body |-> [url |-> local[p].url,
                          expires_at |-> IsoFormat(local[p].expires)]]
    /\ pc' = [pc EXCEPT ![p] = "idle"]
    /\ local' = [local EXCEPT ![p] = NoLocal]
    /\ UNCHANGED <<db, price, order>>

\* ---------------------------------------------------------- price catalog
\* Price(sku=..., label=..., amountCents=...), currency defaulting to USD
Price(sku, label, amountCents) ==
    [sku |-> sku, label |-> label, amountCents |-> amountCents, currency |-> "USD"]

SeedPrices ==
    <<Price("ebook", "eBook (PDF)", EbookCents),
      Price("hardcover", "Hardcover", HardcoverCents)>>

\* the static list returned when no store is configured
FallbackPrices == SeedPrices

\* for e in existing: e["id"] = str(e.pop("_id"))
PricesWithId(existing) == [k \in 1..Len(existing) |-> WithId(k, existing[k])]

\* a seeding test that asks for a full catalog instead of a non-empty one
NeedsSeed_short(existing) == Len(existing) < Len(SeedPrices)

\* a seeding test that is always true
NeedsSeed_always(existing) == TRUE

\* if not existing
NeedsSeed(existing) == existing = <<>>

\* existing = list(db["price"].find()) and the branch on it
prices_find(p) ==
    /\ pc[p] = "idle"
    /\ IF ~db
       THEN /\ last' = [op |-> "get_prices", step |-> "fallback", req |-> NoBody,
                        status |-> 200, body |-> [prices |-> FallbackPrices]]
            /\ UNCHANGED <<pc, local>>
       ELSE IF NeedsSeed(price)
       THEN /\ pc' = [pc EXCEPT ![p] = "prices_seed"]
            /\ local' = [local EXCEPT ![p] =
                           [op |-> "get_prices", existing |-> price, i |-> 1]]
            /\ last' = [op |-> "get_prices", step |-> "find", req |-> NoBody,
                        status |-> 0, body |-> NoBody]
       ELSE /\ last' = [op |-> "get_prices", step |-> "return", req |-> NoBody,
                        status |-> 200, body |-> [prices |-> PricesWithId(price)]]
            /\ UNCHANGED <<pc, local>>
    /\ UNCHANGED <<db, book, price, order>>

\* one turn of the loop: create_document("price", p)
prices_seed(p) ==
    /\ pc[p] = "prices_seed"
    /\ price' = Insert(price, SeedPrices[local[p].i])
    /\ IF local[p].i < Len(SeedPrices)
       THEN /\ local' = [local EXCEPT ![p].i = @ + 1]
            /\ UNCHANGED pc
       ELSE /\ pc' = [pc EXCEPT ![p] = "prices_reread"]
            /\ local' = [local EXCEPT ![p].i = 0]
    /\ last' = [op |-> "get_prices", step |-> "seed", req |-> NoBody,
                status |-> 0, body |-> NoBody]
    /\ UNCHANGED <<db, book, order>>

\* existing = list(db["price"].find()) after seeding, and the return
prices_reread(p) ==
    /\ pc[p] = "prices_reread"
    /\ last' = [op |-> "get_prices", step |-> "reread", req |-> NoBody,
                status |-> 200, body |-> [prices |-> PricesWithId(price)]]
    /\ pc' = [pc EXCEPT ![p] = "idle"]
    /\ local' = [local EXCEPT ![p] = NoLocal]
    /\ UNCHANGED <<db, book, price, order>>

\* ----------------------------------------------------------------- orders
\* a lookup that takes the default whenever the SKU is not the first entry
PriceOrDefault_first(coll, sku) ==
    IF coll # <<>> /\ coll[1].sku = sku THEN coll[1]
    ELSE [amountCents |-> DefaultAmountCents, currency |-> "USD"]

\* db["price"].find_one({"sku": sku}) or {"amountCents": 1900, "currency": "USD"}
PriceOrDefault(coll, sku) ==
    LET found == FindOneBySku(coll, sku, 1) IN
    IF found # <<>> THEN found[1]
    ELSE [amountCents |-> DefaultAmountCents, currency |-> "USD"]

\* a shipping fee charged after all
shipping_flat == 5 * 100

\* shipping = 0  (global free shipping promo)
shipping == 0

\* discount = 0
discount == 0

\* total = subtotal + shipping - discount
Total(subtotal, ship, disc) == subtotal + ship - disc

\* Order(bookId=..., items=[...], subtotalCents=..., ...) with the schema defaults
NewOrder(bookId, sku, subtotal, ship, disc, total) ==
    [bookId |-> bookId, ownerId |-> None,
     items |-> <<[sku |-> sku, qty |-> 1, amountCents |-> subtotal]>>,
     subtotalCents |-> subtotal, shippingCents |-> ship,
     discountCents |-> disc, totalCents |-> total,
     currency |-> "USD", status |-> "created"]

\* the ge=0 constraints of the Order schema
OrderValid(o) ==
    /\ o.subtotalCents >= 0
    /\ o.shippingCents >= 0
    /\ o.discountCents >= 0
    /\ o.totalCents >= 0

create_order ==
    \E bookId \in ReqIds, sku \in Skus :
        LET req == [bookId |-> bookId, sku |-> sku]
            subtotal == PriceOrDefault(price, sku).amountCents
            total == Total(subtotal, shipping, discount)
            o == NewOrder(bookId, sku, subtotal, shipping, discount, total)
        IN
        /\ Len(order) < MaxOrders
        /\ IF ~db \/ ObjectIdRaises(bookId)
           THEN /\ last' = Error("create_order", req, 500)
                /\ UNCHANGED order
           ELSE IF FindById(book, ObjectId(bookId)) = <<>>
           THEN /\ last' = Error("create_order", req, 404)
                /\ UNCHANGED order
           ELSE IF ~OrderValid(o)
           THEN /\ last' = Error("create_order", req, 500)
                /\ UNCHANGED order
           ELSE /\ order' = Insert(order, o)
                /\ last' = [op |-> "create_order", step |-> "return", req |-> req,
                            status |-> 200,
                            body |-> [id |-> Str(InsertedKey(order)),
                                      totalCents |-> total]]
        /\ UNCHANGED <<db, book, price, pc, local>>

\* ---------------------------------------------------------- specifications
NextBooks ==
    \/ create_book
    \/ get_book
    \/ update_book
    \/ \E p \in Procs : download_find(p)
    \/ \E p \in Procs : download_update(p)

NextShop ==
    \/ create_book
    \/ create_order
    \/ \E p \in Procs : prices_find(p)
    \/ \E p \in Procs : prices_seed(p)
    \/ \E p \in Procs : prices_reread(p)

\* get_prices requests that do not overlap one another
NextSeq ==
    \/ create_book
    \/ create_order
    \/ \E p \in Procs : (\A q \in Procs : pc[q] = "idle") /\ prices_find(p)
    \/ \E p \in Procs : prices_seed(p)
    \/ \E p \in Procs : prices_reread(p)

Next == NextBooks \/ NextShop

\* every handler, any interleaving
Spec == Init /\ [][Next]_vars

\* the book lifecycle handlers
SpecBooks == Init /\ [][NextBooks]_vars

\* the catalog and order handlers, get_prices requests overlapping freely
SpecShop == Init /\ [][NextShop]_vars

\* the catalog and order handlers, get_prices requests one after another
SpecSeq == Init /\ [][NextSeq]_vars

\* ------------------------------------------------------------- properties
\* the identifier names no stored book (ill-formed, or a key not in use)
Absent(coll, id) == ObjectIdRaises(id) \/ ObjectId(id) \notin DOMAIN coll

\* the step just taken is the lookup half of a download request
DownloadLookupStep == last'.op = "get_download_link" /\ last'.step \in {"raise", "find"}

TwentyFourHours == 24 * 3600 * TicksPerSec

\* C1: with the store configured, a download request for an identifier whose
\* book is absent or whose status is not 'ready' answers 400 and writes nothing.
C1_RefusedIs400 ==
    [][(/\ db
        /\ DownloadLookupStep
        /\ \/ Absent(book, last'.req.book_id)
           \/ book[ObjectId(last'.req.book_id)].status # "ready")
       => /\ last'.status = 400
          /\ UNCHANGED <<book, price, order>>]_vars

\* C2: a download request for an existing 'ready' book goes on to its store
\* write with an expiry of the clock reading plus 24 hours and a url made of the
\* identifier and the expiry in whole seconds; the write sets download_url and
\* expires_at of that book and nothing else, and the answer is 200 with the url
\* and the expiry that were stored.
C2_LinkIssued ==
    [][/\ (/\ db
           /\ DownloadLookupStep
           /\ ~Absent(book, last'.req.book_id)
           /\ book[ObjectId(last'.req.book_id)].status = "ready")
          => /\ last'.step = "find"
             /\ UNCHANGED <<book, price, order>>
             /\ \E p \in Procs :
                  /\ pc[p] = "idle"
                  /\ pc'[p] = "download_update"
                  /\ local'[p].book_id = last'.req.book_id
                  /\ local'[p].expires = last'.req.now + TwentyFourHours
                  /\ local'[p].url =
                       [book_id |-> last'.req.book_id,
                        exp |-> (last'.req.now + TwentyFourHours) \div TicksPerSec]
       /\ \A p \in Procs :
            (pc[p] = "download_update" /\ pc'[p] = "idle")
            => LET key == ObjectId(local[p].book_id) IN
               /\ last'.op = "get_download_link"
               /\ last'.status = 200
               /\ key \in DOMAIN book
               /\ book' = [book EXCEPT ![key].download_url = Some(local[p].url),
                                       ![key].expires_at = Some(local[p].expires)]
               /\ last'.body.url = book'[key].download_url[1]
               /\ last'.body.expires_at = IsoFormat(book'[key].expires_at[1])
               /\ UNCHANGED <<price, order>>]_vars

\* a link was just stored on one of two books
C2_Witness ==
    /\ last.op = "get_download_link"
    /\ last.status = 200
    /\ Len(book) = 2
    /\ book[ObjectId(last.req.book_id)].download_url = Some(last.body.url)
    /\ book[ObjectId(last.req.book_id)].expires_at = Some(1 + TwentyFourHours)
    /\ last.body.url.exp = 24 * 3600

\* C3: with the store configured, get_book answers 404 for an identifier that
\* matches no stored book or is not a well-formed key, and the full record
\* (200) for an existing book.
C3_NotFoundIs404 ==
    (db /\ last.op = "get_book")
    => IF Absent(book, last.req.book_id)
       THEN last.status = 404
       ELSE /\ last.status = 200
            /\ last.body = WithId(ObjectId(last.req.book_id),
                                  book[ObjectId(last.req.book_id)])

\* C4 as claimed: every stored book with a download_url has status 'ready'.
C4_UrlOnlyWhileReady ==
    \A i \in DOMAIN book : book[i].download_url # None => book[i].status = "ready"

\* C4 amended: download_url is written only by the store write of a download
\* request, and a download request reaches its store write only after finding
\* the book with status 'ready'.
C4_UrlWrittenAfterReadyLookup ==
    [][/\ \A i \in DOMAIN book' :
            (i \notin DOMAIN book \/ book'[i].download_url # book[i].download_url)
            => \/ book'[i].download_url = None
               \/ \E p \in Procs :
                    /\ pc[p] = "download_update"
                    /\ pc'[p] = "idle"
                    /\ ObjectId(local[p].book_id) = i
       /\ \A p \in Procs :
            (pc[p] = "idle" /\ pc'[p] = "download_update")
            => /\ ~Absent(book, local'[p].book_id)
               /\ book[ObjectId(local'[p].book_id)].status = "ready"]_vars

\* a book holds a download_url while its status is not 'ready'
C4_Witness ==
    \E i \in DOMAIN book : book[i].download_url # None /\ book[i].status = "draft"

\* C9: with the store configured, update_book on an existing book answers 200,
\* sets exactly the provided fields among meta, json_content, status and
\* progress, stamps updated_at with the clock reading, and leaves every other
\* field, every other book and the other collections as they were.
C9_PartialMerge ==
    [][(db /\ last'.op = "update_book" /\ ~Absent(book, last'.req.book_id))
       => LET key == ObjectId(last'.req.book_id)
              payload == last'.req.payload
          IN
          /\ last'.status = 200
          /\ DOMAIN book' = DOMAIN book
          /\ DOMAIN book'[key] = DOMAIN book[key]
          /\ \A f \in PayloadFields :
                book'[key][f] = IF payload[f] # None THEN payload[f][1]
                                ELSE book[key][f]
          /\ book'[key].updated_at = Some(last'.req.now)
          /\ \A f \in DOMAIN book[key] \ (PayloadFields \cup {"updated_at"}) :
                book'[key][f] = book[key][f]
          /\ \A j \in DOMAIN book \ {key} : book'[j] = book[j]
          /\ UNCHANGED <<price, order>>]_vars

\* an update with no field at all went through on a book that holds a link and
\* fields changed by earlier updates
C9_Witness ==
    /\ last.op = "update_book"
    /\ last.status = 200
    /\ \A f \in PayloadFields : last.req.payload[f] = None
    /\ Len(book) = 2
    /\ LET b == book[ObjectId(last.req.book_id)] IN
       /\ b.download_url # None
       /\ b.json_content = "story"
       /\ b.status = "ready"
       /\ b.updated_at = Some(last.req.now)

\* C10: every stored book's progress is within 0..100.
C10_ProgressInRange ==
    \A i \in DOMAIN book : book[i].progress \in 0..100

\* C5: every stored order has total = subtotal + shipping - discount >= 0 with
\* shipping = discount = 0, so total = subtotal; it has the one line item
\* {sku, qty 1, amount = subtotal} and status 'created'; and the totalCents
\* answered by create_order is the stored total.
C5_OrderTotals ==
    /\ \A k \in DOMAIN order :
         LET o == order[k] IN
         /\ o.totalCents = o.subtotalCents + o.shippingCents - o.discountCents
         /\ o.totalCents >= 0
         /\ o.shippingCents = 0
         /\ o.discountCents = 0
         /\ o.totalCents = o.subtotalCents
         /\ Len(o.items) = 1
         /\ o.items[1].qty = 1
         /\ o.items[1].amountCents = o.subtotalCents
         /\ o.items[1].sku \in Skus
         /\ DOMAIN o.items[1] = {"sku", "qty", "amountCents"}
         /\ o.status = "created"
    /\ (last.op = "create_order" /\ last.status = 200)
       => /\ order # <<>>
          /\ last.body.id = Str(Len(order))
          /\ last.body.totalCents = order[Len(order)].totalCents
          /\ order[Len(order)].items[1].sku = last.req.sku
          /\ order[Len(order)].bookId = last.req.bookId

\* two orders are stored, the second just answered, at different amounts
C5_Witness ==
    /\ Len(order) = 2
    /\ last.op = "create_order"
    /\ last.status = 200
    /\ order[1].totalCents # order[2].totalCents

\* the catalog keys holding an entry for a SKU
Entries(sku) == {k \in DOMAIN price : price[k].sku = sku}

\* C6: with the store configured, create_order for an existing book answers
\* 200 whatever the SKU; the subtotal is the amount of a catalog entry for the
\* SKU when there is one (3900 for hardcover once seeded) and 1900, in USD,
\* when there is none.
C6_SkuNeverFails ==
    (db /\ last.op = "create_order" /\ ~Absent(book, last.req.bookId))
    => /\ last.status = 200
       /\ order # <<>>
       /\ LET o == order[Len(order)]
              sku == last.req.sku
          IN
          /\ o.items[1].sku = sku
          /\ Entries(sku) # {}
             => \E k \in Entries(sku) : o.subtotalCents = price[k].amountCents
          /\ Entries(sku) = {}
             => o.subtotalCents = 1900 /\ o.currency = "USD"
          /\ (sku = "hardcover" /\ Entries(sku) # {})
             => last.body.totalCents = 3900

\* a hardcover order at 3900 was just answered, after an order for a SKU the
\* seeded catalog does not hold went through at 1900
C6_Witness ==
    /\ Len(order) = 2
    /\ last.op = "create_order"
    /\ last.status = 200
    /\ last.req.sku = "hardcover"
    /\ last.body.totalCents = 3900
    /\ order[1].items[1].sku = "poster"
    /\ order[1].subtotalCents = 1900
    /\ price # <<>>

\* C7: when get_prices requests run one after another from an empty catalog,
\* the catalog never holds anything but a prefix of the two seed entries, and
\* every answered request leaves the catalog at exactly ebook@1900 USD and
\* hardcover@3900 USD and answers exactly these two entries, under the same
\* keys each time.
C7_SeedingIdempotent ==
    /\ Len(price) <= 2
    /\ \A k \in DOMAIN price : price[k] = SeedPrices[k]
    /\ (db /\ last.op = "get_prices" /\ last.status = 200)
       => /\ Len(price) = 2
          /\ [k \in 1..2 |-> price[k].sku] = <<"ebook", "hardcover">>
          /\ [k \in 1..2 |-> price[k].amountCents] = <<1900, 3900>>
          /\ [k \in 1..2 |-> price[k].currency] = <<"USD", "USD">>
          /\ last.body.prices = <<WithId(1, price[1]), WithId(2, price[2])>>

\* a request that found the catalog already seeded was just answered
C7_Witness ==
    /\ db
    /\ last.op = "get_prices"
    /\ last.step = "return"
    /\ last.status = 200
    /\ Len(last.body.prices) = 2

\* C8: seeding rests on a read made earlier and on nothing else: a request in
\* its insert loop read the catalog as empty, whatever the catalog holds by
\* now, so each SKU can be stored once per overlapping request (and no more
\* often than that).
C8_SeedingUnguarded ==
    /\ \A p \in Procs : pc[p] = "prices_seed" => local[p].existing = <<>>
    /\ \A sku \in Skus : Cardinality(Entries(sku)) <= NumProcs
    /\ Len(price) <= 2 * NumProcs

\* the catalog holds two entries for the same SKU, more than two in all
C8_Witness ==
    /\ Len(price) > 2
    /\ \E j, k \in DOMAIN price : j # k /\ price[j].sku = price[k].sku
====
